---- MODULE Spec2Model ----
(***************************************************************************)
(* Model of src/main.py: the upload handler, the two-pass OCR verification *)
(* job (process_file) with its read-filter-append-write persist cycle on   *)
(* uploads/results.json, and the two query endpoints.                      *)
(*                                                                         *)
(* Text.  A Python string is a sequence of fragments.  A fragment is one   *)
(* character ("1", ".", "$", "/", "\\", "_", "a", ...) or a literal of the   *)
(* source that holds no digit, no '.' and no path separator ("OCR Error",  *)
(* "Not Detected", "uploads", "results.json", ...), so that the regular    *)
(* expressions of the source act fragment by fragment.                     *)
(*                                                                         *)
(* Python's None.  expected is None or a string: None is <<>> and the      *)
(* string s is <<s>> (so the empty string <<<<>>>> differs from None).       *)
(*                                                                         *)
(* Threads.  upload_images is an `async def` without an await: it runs to  *)
(* completion on the event loop.  process_file is a plain `def`: the       *)
(* background tasks of one request run one after the other, each in a      *)
(* worker thread, and the tasks of different requests, the query endpoints *)
(* and later uploads interleave with them at every access to the file      *)
(* system.                                                                 *)
(***************************************************************************)
EXTENDS Naturals, Sequences, FiniteSets

VARIABLES
    fs,         \* the upload directory: path -> content, for the paths that exist
    jobs,       \* the process_file calls scheduled and not yet returned, with
                \* their local variables
    nreq,       \* number of POST /upload requests served
    ntasks,     \* number of background tasks scheduled so far
    request,    \* the files of the POST /upload the latest step served
    response,   \* the HTTP response the latest step sent (ep "none": none)
    persisted,  \* history: filenames a persist step has written a record for
    ocr_res,    \* argument of a direct call of extract_amount_from_ocr
    amount      \* its return value (None before the call)

vars == <<fs, jobs, nreq, ntasks, request, response, persisted, ocr_res, amount>>

----------------------------------------------------------------------------
(* Bounds *)

MaxJobs == 2
MaxBatch == 2
MaxNameLen == 2
MaxTxtLen == 2
MaxLines == 2

----------------------------------------------------------------------------
(* Strings and regular expressions *)

None == <<>>
Some(s) == <<s>>

Digit == {"0", "1", "2", "3", "4", "5", "6", "7", "8", "9"}

\* sequences over S of length lo..hi
SeqsOf(S, lo, hi) == UNION {[1..n -> S] : n \in lo..hi}

\* re.sub(pattern, "", s) for a pattern [^...] whose complement is Keep
RECURSIVE re_sub_delete(_, _)
re_sub_delete(Keep, s) ==
    IF s = <<>> THEN <<>>
    ELSE IF Head(s) \in Keep THEN <<Head(s)>> \o re_sub_delete(Keep, Tail(s))
    ELSE re_sub_delete(Keep, Tail(s))

\* a sanitizer that forgets the backslash: re.sub(r'[/]', '_', s)
RECURSIVE re_sub_separators_SlashOnly(_)
re_sub_separators_SlashOnly(s) ==
    IF s = <<>> THEN <<>>
    ELSE <<IF Head(s) = "/" THEN "_" ELSE Head(s)>>
         \o re_sub_separators_SlashOnly(Tail(s))

\* re.sub(r'[\\/]', '_', s)
RECURSIVE re_sub_separators(_)
re_sub_separators(s) ==
    IF s = <<>> THEN <<>>
    ELSE <<IF Head(s) \in {"\\", "/"} THEN "_" ELSE Head(s)>>
         \o re_sub_separators(Tail(s))

\* re.search(r"\d", txt)
re_search_digit(txt) == \E i \in 1..Len(txt) : txt[i] \in Digit

\* Python's `x or ""` for x None or a string
OrEmpty(x) == IF x = None THEN <<>> ELSE IF x[1] = <<>> THEN <<>> ELSE x[1]

----------------------------------------------------------------------------
(* Paths and file contents *)

UPLOAD_DIR == <<"uploads">>
os_path_join(dir, name) == dir \o <<"/">> \o name
RESULTS_FILE == os_path_join(UPLOAD_DIR, <<"results.json">>)

\* what a file holds: an image (as uploaded, preprocessed, or left half-written
\* by a failed save), a JSON array of records, nothing (just truncated), or
\* bytes that are neither (the remains of overlapping writes)
Image(st) == [kind |-> "image", st |-> st, data |-> <<>>]
Json(data) == [kind |-> "json", st |-> "", data |-> data]
Empty == [kind |-> "empty", st |-> "", data |-> <<>>]
Corrupt == [kind |-> "corrupt", st |-> "", data |-> <<>>]

os_path_exists(p) == p \in DOMAIN fs
WriteFile(f, p, c) == [q \in DOMAIN f \cup {p} |-> IF q = p THEN c ELSE f[q]]

\* PIL's save picks the format from the extension and raises before it opens
\* the file when the extension is not an image format
SavableAsImage(fp) == fp[Len(fp)] # "results.json"

----------------------------------------------------------------------------
(* extract_amount_from_ocr *)

OCR_ERROR == <<"OCR Error">>
NOT_DETECTED == <<"Not Detected">>

\* ocr_res is a Python list: <<>> is a result without ocr_res[0]; a page
\* ocr_res[0] is iterable (ok) or not (None, PaddleOCR's answer for an image
\* without text); a line has line[1][0] (ok, txt) or has not
Line(txt) == [ok |-> TRUE, txt |-> txt]
BadLine == [ok |-> FALSE, txt |-> <<>>]
Page(lines) == [ok |-> TRUE, lines |-> lines]
BadPage == [ok |-> FALSE, lines |-> <<>>]

\* a scan that also deletes the decimal point: re.sub(r"[^\d]", "", txt)
RECURSIVE ScanLines_DigitsOnly(_, _)
ScanLines_DigitsOnly(lines, i) ==
    IF i > Len(lines) THEN NOT_DETECTED
    ELSE IF ~lines[i].ok THEN OCR_ERROR
    ELSE IF re_search_digit(lines[i].txt)
         THEN re_sub_delete(Digit, lines[i].txt)
    ELSE ScanLines_DigitsOnly(lines, i + 1)

\* lines 46-50
RECURSIVE ScanLines(_, _)
ScanLines(lines, i) ==
    IF i > Len(lines) THEN NOT_DETECTED
    ELSE IF ~lines[i].ok THEN OCR_ERROR
    ELSE IF re_search_digit(lines[i].txt)
         THEN re_sub_delete(Digit \cup {"."}, lines[i].txt)
    ELSE ScanLines(lines, i + 1)

extract_amount_from_ocr(res) ==
    IF Len(res) = 0 THEN OCR_ERROR
    ELSE IF ~res[1].ok THEN OCR_ERROR
    ELSE ScanLines(res[1].lines, 1)

----------------------------------------------------------------------------
(* process_file: one background job *)

NoResponse == [ep |-> "none", ok |-> TRUE, body |-> <<>>]

\* a step of a worker thread completes no HTTP exchange
NoExchange == request' = <<>> /\ response' = NoResponse

\* what one call ocr.ocr(fp, cls=True) does: it raises (with the text of the
\* exception) or returns a result
Throws(err) == [throws |-> TRUE, err |-> err, res |-> <<>>]
Returns(res) == [throws |-> FALSE, err |-> <<>>, res |-> res]

NewJob(fp, fn, req) ==
    [fp |-> fp, fn |-> fn, req |-> req, pc |-> "raw",
     expected |-> None, extracted |-> <<>>, is_match |-> FALSE,
     data |-> <<>>, failed |-> {}]

\* process_file has returned: the task and its local variables are gone
Returned(j) == SubSeq(jobs, 1, j - 1) \o SubSeq(jobs, j + 1, Len(jobs))

\* the tasks of one request run in the order they were added: a task runs
\* when every earlier task of its request has returned
Runnable(j) ==
    /\ j \in 1..Len(jobs)
    /\ \A k \in 1..(j - 1) : jobs[k].req # jobs[j].req

\* lines 56-60
RawPass(j, out) ==
    /\ Runnable(j) /\ jobs[j].pc = "raw"
    /\ jobs' = [jobs EXCEPT
           ![j].expected = IF out.throws THEN None
                           ELSE Some(extract_amount_from_ocr(out.res)),
           ![j].failed = IF out.throws THEN @ \cup {"raw"} ELSE @,
           ![j].pc = "pre"]
    /\ NoExchange
    /\ UNCHANGED <<fs, nreq, ntasks, persisted, ocr_res, amount>>

\* preprocess_image(fp), lines 35-42: how == "ok" saves the processed image,
\* "fail" raises before the file is opened for writing, "partial" raises
\* while the file is being written
preprocess_image(fp, how) ==
    IF fs[fp].kind = "image" /\ SavableAsImage(fp) /\ how = "ok"
        THEN WriteFile(fs, fp, Image("processed"))
    ELSE IF fs[fp].kind = "image" /\ SavableAsImage(fp) /\ how = "partial"
        THEN WriteFile(fs, fp, Image("partial"))
    ELSE fs

PreprocessOk(fp, how) ==
    fs[fp].kind = "image" /\ SavableAsImage(fp) /\ how = "ok"

\* line 63
Preprocess(j, how) ==
    /\ Runnable(j) /\ jobs[j].pc = "pre"
    /\ fs' = preprocess_image(jobs[j].fp, how)
    /\ jobs' = [jobs EXCEPT
           ![j].failed = IF PreprocessOk(jobs[j].fp, how) THEN @ ELSE @ \cup {"pre"},
           ![j].pc = "proc"]
    /\ NoExchange
    /\ UNCHANGED <<nreq, ntasks, persisted, ocr_res, amount>>

\* a comparison without `and bool(clean_exp)`
IsMatch_NoEmptyCheck(expected, extracted) ==
    re_sub_delete(Digit, OrEmpty(expected))
        = re_sub_delete(Digit, OrEmpty(Some(extracted)))

\* lines 71-73
IsMatch(expected, extracted) ==
    LET clean_exp == re_sub_delete(Digit, OrEmpty(expected))
        clean_ext == re_sub_delete(Digit, OrEmpty(Some(extracted)))
    IN  (clean_exp = clean_ext) /\ (clean_exp # <<>>)

\* an error marker that is the bare text of the exception: f"{e}"
ProcErrorMarker_Bare(err) == err

\* line 68: f"OCR Error: {e}"
ProcErrorMarker(err) == <<"OCR Error", ": ">> \o err

\* lines 64-73
ProcPass(j, out) ==
    /\ Runnable(j) /\ jobs[j].pc = "proc"
    /\ LET extracted == IF out.throws THEN ProcErrorMarker(out.err)
                        ELSE extract_amount_from_ocr(out.res)
       IN jobs' = [jobs EXCEPT
              ![j].extracted = extracted,
              ![j].is_match = IsMatch(jobs[j].expected, extracted),
              ![j].failed = IF out.throws THEN @ \cup {"proc"} ELSE @,
              ![j].pc = "exists"]
    /\ NoExchange
    /\ UNCHANGED <<fs, nreq, ntasks, persisted, ocr_res, amount>>

\* lines 76-82
Rec(job) ==
    [filename |-> job.fn,
     expected_amount |-> job.expected,
     amount |-> job.extracted,
     match |-> job.is_match,
     preview_url |-> <<"/uploads/">> \o job.fn]

\* line 84
PersistExists(j) ==
    /\ Runnable(j) /\ jobs[j].pc = "exists"
    /\ jobs' = [jobs EXCEPT
           ![j].pc = IF os_path_exists(RESULTS_FILE) THEN "load" ELSE "create"]
    /\ NoExchange
    /\ UNCHANGED <<fs, nreq, ntasks, persisted, ocr_res, amount>>

\* a merge without the filter of line 87
Merge_AppendOnly(data, rec) == data \o <<rec>>

\* lines 87-88
Merge(data, rec) ==
    SelectSeq(data, LAMBDA d : d.filename # rec.filename) \o <<rec>>

\* lines 85-88: json.load raises on anything but a JSON document, and the
\* handler of line 93 ends the job
PersistLoad(j) ==
    /\ Runnable(j) /\ jobs[j].pc = "load"
    /\ jobs' = IF fs[RESULTS_FILE].kind = "json"
               THEN [jobs EXCEPT
                        ![j].data = Merge(fs[RESULTS_FILE].data, Rec(jobs[j])),
                        ![j].pc = "trunc"]
               ELSE Returned(j)
    /\ NoExchange
    /\ UNCHANGED <<fs, nreq, ntasks, persisted, ocr_res, amount>>

\* line 89: f.seek(0); f.truncate()
PersistTruncate(j) ==
    /\ Runnable(j) /\ jobs[j].pc = "trunc"
    /\ fs' = WriteFile(fs, RESULTS_FILE, Empty)
    /\ jobs' = [jobs EXCEPT ![j].pc = "dump"]
    /\ NoExchange
    /\ UNCHANGED <<nreq, ntasks, persisted, ocr_res, amount>>

\* line 91: open(RESULTS_FILE, "w") creates or truncates the file
PersistCreate(j) ==
    /\ Runnable(j) /\ jobs[j].pc = "create"
    /\ fs' = WriteFile(fs, RESULTS_FILE, Empty)
    /\ jobs' = [jobs EXCEPT ![j].data = <<Rec(jobs[j])>>, ![j].pc = "dump"]
    /\ NoExchange
    /\ UNCHANGED <<nreq, ntasks, persisted, ocr_res, amount>>

\* The text of json.dump reaches the file from offset 0 when the file is
\* closed.  Onto an empty file it is the whole content.  Onto bytes another
\* writer put there since the truncation it is the whole content only if it is
\* at least as long (covers == TRUE); otherwise the old tail stays behind
\* the new document and the file is no JSON document.
Overwrite(cur, data, covers) ==
    IF cur.kind = "empty" \/ cur = Json(data) \/ covers THEN Json(data)
    ELSE Corrupt

\* lines 89 and 92: json.dump and the close of the file
PersistDump(j, covers) ==
    /\ Runnable(j) /\ jobs[j].pc = "dump"
    /\ LET new == Overwrite(fs[RESULTS_FILE], jobs[j].data, covers)
       IN /\ fs' = WriteFile(fs, RESULTS_FILE, new)
          /\ persisted' = IF new.kind = "json" THEN persisted \cup {jobs[j].fn}
                          ELSE persisted
    /\ jobs' = Returned(j)
    /\ NoExchange
    /\ UNCHANGED <<nreq, ntasks, ocr_res, amount>>

----------------------------------------------------------------------------
(* The HTTP handlers *)

\* lines 100-105, for the files from the i-th on
RECURSIVE StoreAll(_, _, _)
StoreAll(f, files, i) ==
    IF i > Len(files) THEN f
    ELSE StoreAll(WriteFile(f, os_path_join(UPLOAD_DIR, re_sub_separators(files[i])),
                            Image("raw")),
                  files, i + 1)

\* line 104
Task(filename, req) ==
    LET safe == re_sub_separators(filename)
    IN  NewJob(os_path_join(UPLOAD_DIR, safe), safe, req)

\* a response entry that echoes the filename as uploaded
RespEntry_Unsanitized(filename) ==
    [filename |-> filename, status |-> "Processing",
     preview_url |-> <<"/uploads/">> \o filename]

\* line 105
RespEntry(filename) ==
    LET safe == re_sub_separators(filename)
    IN  [filename |-> safe, status |-> "Processing",
         preview_url |-> <<"/uploads/">> \o safe]

\* POST /upload, lines 96-106
upload_images(files) ==
    /\ nreq' = nreq + 1
    /\ ntasks' = ntasks + Len(files)
    /\ fs' = StoreAll(fs, files, 1)
    /\ jobs' = jobs \o [i \in 1..Len(files) |-> Task(files[i], nreq + 1)]
    /\ request' = files
    /\ response' = [ep |-> "upload", ok |-> TRUE,
                    body |-> [i \in 1..Len(files) |-> RespEntry(files[i])]]
    /\ UNCHANGED <<persisted, ocr_res, amount>>

\* line 110; ok = FALSE is the exception of json.load (the request fails)
get_results(f) ==
    IF RESULTS_FILE \notin DOMAIN f THEN [ok |-> TRUE, body |-> <<>>]
    ELSE IF f[RESULTS_FILE].kind = "json"
         THEN [ok |-> TRUE, body |-> f[RESULTS_FILE].data]
    ELSE [ok |-> FALSE, body |-> <<>>]

\* sum(1 for d in data if d["match"])
RECURSIVE CountMatch(_)
CountMatch(data) ==
    IF data = <<>> THEN 0
    ELSE (IF Head(data).match THEN 1 ELSE 0) + CountMatch(Tail(data))

\* a summary that counts every record as matched
get_summary_CountsAll(f) ==
    IF RESULTS_FILE \notin DOMAIN f
        THEN [ok |-> TRUE, body |-> <<[total |-> 0, matched |-> 0]>>]
    ELSE IF f[RESULTS_FILE].kind = "json"
        THEN [ok |-> TRUE,
              body |-> <<[total |-> Len(f[RESULTS_FILE].data),
                          matched |-> Len(f[RESULTS_FILE].data)]>>]
    ELSE [ok |-> FALSE, body |-> <<>>]

\* lines 114-117
get_summary(f) ==
    IF RESULTS_FILE \notin DOMAIN f
        THEN [ok |-> TRUE, body |-> <<[total |-> 0, matched |-> 0]>>]
    ELSE IF f[RESULTS_FILE].kind = "json"
        THEN [ok |-> TRUE,
              body |-> <<[total |-> Len(f[RESULTS_FILE].data),
                          matched |-> CountMatch(f[RESULTS_FILE].data)]>>]
    ELSE [ok |-> FALSE, body |-> <<>>]

\* GET /results
GetResults ==
    /\ response' = [ep |-> "results", ok |-> get_results(fs).ok,
                    body |-> get_results(fs).body]
    /\ request' = <<>>
    /\ UNCHANGED <<fs, jobs, nreq, ntasks, persisted, ocr_res, amount>>

\* GET /summary
GetSummary ==
    /\ response' = [ep |-> "summary", ok |-> get_summary(fs).ok,
                    body |-> get_summary(fs).body]
    /\ request' = <<>>
    /\ UNCHANGED <<fs, jobs, nreq, ntasks, persisted, ocr_res, amount>>

----------------------------------------------------------------------------
(* The server under concurrent requests *)

\* uploaded names: a plain one, one with a separator, and the one that
\* sanitizes to the name of the result store
RaceNames == {<<"a">>, <<"b", "/">>, <<"results.json">>}

\* the OCR engine under concurrency: the raw pass reads one line "$1", the
\* processed pass reads the same or raises
RaceRawOutcomes == {Returns(<<Page(<<Line(<<"$", "1">>)>>)>>)}
RaceProcOutcomes == RaceRawOutcomes \cup {Throws(<<"boom">>)}

PreprocessOutcomes == {"ok", "fail", "partial"}
RacePreprocess == {"ok", "fail"}

Init ==
    /\ fs = <<>>
    /\ jobs = <<>>
    /\ nreq = 0
    /\ ntasks = 0
    /\ request = <<>>
    /\ response = NoResponse
    /\ persisted = {}
    /\ ocr_res = <<>>
    /\ amount = None

Upload ==
    /\ ntasks < MaxJobs
    /\ \E files \in SeqsOf(RaceNames, 1, MaxJobs - ntasks) : upload_images(files)

JobStep ==
    \E j \in 1..Len(jobs) :
        \/ \E out \in RaceRawOutcomes : RawPass(j, out)
        \/ \E how \in RacePreprocess : Preprocess(j, how)
        \/ \E out \in RaceProcOutcomes : ProcPass(j, out)
        \/ PersistExists(j)
        \/ PersistLoad(j)
        \/ PersistTruncate(j)
        \/ PersistCreate(j)
        \/ \E covers \in BOOLEAN : PersistDump(j, covers)

Next == Upload \/ JobStep \/ GetResults \/ GetSummary

Spec == Init /\ [][Next]_vars

----------------------------------------------------------------------------
(* One verification job alone, over every outcome of the OCR engine *)

\* results of the OCR engine of at most nlines lines of at most ntxt
\* fragments, well-formed or not
OcrResults(Alphabet, nlines, ntxt) ==
    {<<>>, <<BadPage>>}
    \cup {<<Page(ls)>> :
            ls \in SeqsOf({Line(t) : t \in SeqsOf(Alphabet, 0, ntxt)} \cup {BadLine},
                          0, nlines)}

PipelineNames == {<<"a">>, <<"results.json">>}

PipelineOutcomes ==
    {Throws(<<"boom">>), Throws(<<"Errno", "1">>)}
    \cup {Returns(r) : r \in OcrResults({"1", ".", "$"}, 1, MaxTxtLen)}

UploadOne ==
    /\ ntasks = 0
    /\ \E name \in PipelineNames : upload_images(<<name>>)

\* the only job finds the store absent, or (uploaded as results.json) finds
\* its own image there: no step reaches line 89 through the "r+" branch
PipelineStep ==
    \E j \in 1..Len(jobs) :
        \/ \E out \in PipelineOutcomes : RawPass(j, out)
        \/ \E how \in PreprocessOutcomes : Preprocess(j, how)
        \/ \E out \in PipelineOutcomes : ProcPass(j, out)
        \/ PersistExists(j)
        \/ PersistLoad(j)
        \/ PersistCreate(j)
        \/ \E covers \in BOOLEAN : PersistDump(j, covers)

NextPipeline == UploadOne \/ PipelineStep

SpecPipeline == Init /\ [][NextPipeline]_vars

----------------------------------------------------------------------------
(* One upload request, over every batch of names *)

UploadNames ==
    SeqsOf({"a", "/", "\\"}, 1, MaxNameLen) \cup {<<"results.json">>}

NextUpload ==
    /\ nreq = 0
    /\ \E files \in SeqsOf(UploadNames, 0, MaxBatch) : upload_images(files)

SpecUpload == Init /\ [][NextUpload]_vars

----------------------------------------------------------------------------
(* extract_amount_from_ocr called on every OCR result *)

InitExtract ==
    /\ fs = <<>>
    /\ jobs = <<>>
    /\ nreq = 0
    /\ ntasks = 0
    /\ request = <<>>
    /\ response = NoResponse
    /\ persisted = {}
    /\ ocr_res \in OcrResults({"1", ".", "a"}, MaxLines, MaxTxtLen)
    /\ amount = None

NextExtract ==
    /\ amount = None
    /\ amount' = Some(extract_amount_from_ocr(ocr_res))
    /\ UNCHANGED <<fs, jobs, nreq, ntasks, request, response, persisted, ocr_res>>

SpecExtract == InitExtract /\ [][NextExtract]_vars

----------------------------------------------------------------------------
(* Properties *)

Store == fs[RESULTS_FILE]
StoreReadable == os_path_exists(RESULTS_FILE) /\ Store.kind = "json"
Records == IF StoreReadable THEN Store.data ELSE <<>>
Filenames(data) == {data[i].filename : i \in 1..Len(data)}

\* the digit-only form of a string
DigitsOf(str) == SelectSeq(str, LAMBDA c : c \in Digit)
\* the string of an amount field, "" for an unset one
TextOf(x) == IF x = None THEN <<>> ELSE x[1]

PersistStages == {"exists", "load", "create", "trunc", "dump"}

C2_MatchIffEqualNonEmptyDigits ==
    \A i \in 1..Len(Records) :
        LET r == Records[i]
            de == DigitsOf(TextOf(r.expected_amount))
            da == DigitsOf(r.amount)
        IN  /\ r.match <=> (de = da /\ de # <<>>)
            /\ de = <<>> => ~r.match

\* a persisted record with both digit strings empty (expected_amount unset),
\* hence equal, and match = FALSE
C2_Witness ==
    \E i \in 1..Len(Records) :
        /\ Records[i].expected_amount = None
        /\ DigitsOf(Records[i].amount) = <<>>
        /\ ~Records[i].match

\* what C3 calls well-formed: the result has a page and every line has a text
WellFormed(res) ==
    /\ Len(res) = 1
    /\ res[1].ok
    /\ \A i \in 1..Len(res[1].lines) : res[1].lines[i].ok

HasDigit(txt) == \E i \in 1..Len(txt) : txt[i] \in Digit
AmountChars(txt) == SelectSeq(txt, LAMBDA c : c \in Digit \cup {"."})

\* the answer C3 describes for a well-formed result
FirstDigitLineAmount(lines) ==
    IF \E i \in 1..Len(lines) : HasDigit(lines[i].txt)
    THEN LET k == CHOOSE i \in 1..Len(lines) :
                     /\ HasDigit(lines[i].txt)
                     /\ \A m \in 1..(i - 1) : ~HasDigit(lines[m].txt)
         IN  AmountChars(lines[k].txt)
    ELSE NOT_DETECTED

\* C3 as stated: for a well-formed result the first digit-bearing line with
\* everything but digits and '.' removed, "Not Detected" without such a line;
\* "OCR Error" for every malformed result.
C3_AsStated ==
    amount # None =>
        IF WellFormed(ocr_res)
        THEN amount[1] = FirstDigitLineAmount(ocr_res[1].lines)
        ELSE amount[1] = OCR_ERROR

\* the lines before the first malformed one
RECURSIVE GoodPrefix(_)
GoodPrefix(lines) ==
    IF lines = <<>> \/ ~Head(lines).ok THEN <<>>
    ELSE <<Head(lines)>> \o GoodPrefix(Tail(lines))

\* C3 amended: as stated for a well-formed result; for a malformed one
\* "OCR Error" unless a digit-bearing line precedes the first malformed line,
\* and then the amount of the first such line.
C3_ExtractAmended ==
    amount # None =>
        IF WellFormed(ocr_res)
            THEN amount[1] = FirstDigitLineAmount(ocr_res[1].lines)
        ELSE IF Len(ocr_res) = 0 \/ ~ocr_res[1].ok
            THEN amount[1] = OCR_ERROR
        ELSE LET good == GoodPrefix(ocr_res[1].lines)
             IN  IF \E i \in 1..Len(good) : HasDigit(good[i].txt)
                 THEN amount[1] = FirstDigitLineAmount(good)
                 ELSE amount[1] = OCR_ERROR

\* a digit-free line, then a line with a digit, a '.' and another character:
\* the second line's digits and '.' are returned
C3_Witness ==
    /\ WellFormed(ocr_res)
    /\ Len(ocr_res[1].lines) = 2
    /\ ~HasDigit(ocr_res[1].lines[1].txt)
    /\ ocr_res[1].lines[1].txt # <<>>
    /\ ocr_res[1].lines[2].txt = <<"1", ".">>
    /\ amount = Some(<<"1", ".">>)

\* the storage name of an uploaded filename, position by position
IsSanitized(safe, filename) ==
    /\ Len(safe) = Len(filename)
    /\ \A k \in 1..Len(filename) :
          safe[k] = IF filename[k] = "/" \/ filename[k] = "\\" THEN "_"
                    ELSE filename[k]

\* the tasks the latest request scheduled
TasksOfRequest == SelectSeq(jobs, LAMBDA job : job.req = nreq)

\* C4: the response of an upload has one entry per input file, in input
\* order, each "Processing" with the sanitized filename, and one job per
\* input file was scheduled; for no files the list is empty and no job is.
C4_OneEntryAndJobPerFile ==
    response.ep = "upload" =>
        /\ response.ok
        /\ Len(response.body) = Len(request)
        /\ \A i \in 1..Len(request) :
              /\ response.body[i].status = "Processing"
              /\ IsSanitized(response.body[i].filename, request[i])
        /\ Len(TasksOfRequest) = Len(request)
        /\ \A i \in 1..Len(request) :
              /\ TasksOfRequest[i].fn = response.body[i].filename
              /\ TasksOfRequest[i].pc = "raw"

\* a batch of two different files, the first with a separator, was answered
C4_Witness ==
    /\ response.ep = "upload"
    /\ Len(request) = 2
    /\ request[1] # request[2]
    /\ request[1][1] = "/"

\* the state part of C5: at every moment the summary's total is the number of records
\* /results returns and matched the number of those with match = TRUE (both
\* fail together while the store is unreadable); without a store file the
\* answers are [] and {total: 0, matched: 0}; neither call changes the store.
C5_StateOfStore ==
    LET res == get_results(fs)
        sum == get_summary(fs)
    IN  /\ res.ok <=> sum.ok
        /\ res.ok =>
              /\ Len(sum.body) = 1
              /\ sum.body[1].total = Len(res.body)
              /\ sum.body[1].matched =
                    Cardinality({i \in 1..Len(res.body) : res.body[i].match})
        /\ ~os_path_exists(RESULTS_FILE) =>
              /\ res.ok /\ res.body = <<>>
              /\ sum.body = <<[total |-> 0, matched |-> 0]>>

C6_NoSeparatorInStorageName ==
    response.ep = "upload" =>
        \A i \in 1..Len(request) :
            LET safe == TasksOfRequest[i].fn
            IN  /\ \A k \in 1..Len(safe) : safe[k] \notin {"/", "\\"}
                /\ IsSanitized(safe, request[i])
                /\ TasksOfRequest[i].fp = UPLOAD_DIR \o <<"/">> \o safe
                /\ os_path_exists(TasksOfRequest[i].fp)

\* a name made of both separators was uploaded
C6_Witness ==
    /\ response.ep = "upload"
    /\ \E i \in 1..Len(request) : request[i] = <<"/", "\\">>

\* C7: whichever of the raw pass, the preprocessing and the processed pass
\* failed, the job goes on: it always has a next step, and at the persist
\* step it holds one record in which a raw-pass throw left expected_amount
\* unset, a processed-pass throw left an amount starting with "OCR Error",
\* and both together left match = FALSE.
C7_FailuresOnlyDegrade ==
    /\ jobs # <<>> => ENABLED PipelineStep
    /\ \A j \in 1..Len(jobs) :
          /\ jobs[j].failed # {} => jobs[j].pc # "raw"
          /\ jobs[j].pc \in PersistStages =>
                LET rec == Rec(jobs[j])
                IN  /\ rec.filename = jobs[j].fn
                    /\ "raw" \in jobs[j].failed <=> rec.expected_amount = None
                    /\ "proc" \in jobs[j].failed =>
                          /\ Len(rec.amount) >= 1
                          /\ rec.amount[1] = "OCR Error"
                    /\ {"raw", "proc"} \subseteq jobs[j].failed => ~rec.match

\* a job whose three stages all failed has reached the persist step
C7_Witness ==
    \E j \in 1..Len(jobs) :
        /\ jobs[j].failed = {"raw", "pre", "proc"}
        /\ jobs[j].pc = "dump"

\* C8: when a job's persist step completes, the collection holds the job's
\* record and a record for every other filename persisted before.  (Stated
\* for a write that finds the store as the job's own open left it, empty:
\* no upload and no other writer's bytes are under it.)
C8_PersistKeepsOtherRecords ==
    [][\A j \in 1..Len(jobs) :
          (jobs[j].pc = "dump" /\ jobs' = Returned(j) /\ Store.kind = "empty") =>
              /\ fs'[RESULTS_FILE].kind = "json"
              /\ \E i \in 1..Len(fs'[RESULTS_FILE].data) :
                    fs'[RESULTS_FILE].data[i] = Rec(jobs[j])
              /\ \A fn \in persisted \ {jobs[j].fn} :
                    fn \in Filenames(fs'[RESULTS_FILE].data)]_vars

\* C9: the raw pass of every job reads the file as the upload wrote it, and
\* after a successful preprocessing the processed pass reads the
\* preprocessed file.
C9_PassesSeeTheirFile ==
    [][\A j \in 1..Len(jobs) :
          Len(jobs') = Len(jobs) =>
              /\ (jobs[j].pc = "raw" /\ jobs'[j].pc = "pre")
                    => fs[jobs[j].fp] = Image("raw")
              /\ (jobs[j].pc = "proc" /\ jobs'[j].pc = "exists"
                  /\ "pre" \notin jobs[j].failed)
                    => fs[jobs[j].fp] = Image("processed")]_vars

\* C10: an upload writes to a path other than the result store and leaves
\* the content of a result collection unchanged.
C10_UploadLeavesStore ==
    [][(nreq' # nreq /\ StoreReadable) => fs'[RESULTS_FILE] = fs[RESULTS_FILE]]_vars

====
